---- MODULE Spec2Model ----
(***************************************************************************)
(* Model of src/server.js: the GET /download handler of the YouTube MP4/MP3 *)
(* downloader.  A request is validated, gets a fresh temporary directory,  *)
(* spawns the extraction tool in it under a kill timer, and on the child's *)
(* 'close' event either answers 500 or streams the produced file.          *)
(*                                                                         *)
(* Text is modelled as sequences of one-character strings, so that trim,   *)
(* toLowerCase, endsWith, the regular expressions and the percent-encoding *)
(* are computed and not assumed.  "U+00E9" stands for one non-ASCII        *)
(* character (e with acute accent) and "\t" for one control character.     *)
(***************************************************************************)
EXTENDS Integers, Sequences, FiniteSets, TLC

-----------------------------------------------------------------------------
(* Bounds of the model *)

\* number of request identities
MaxReqs == 2
\* longest base name of a produced file in the header specification
MaxNameLen == 3
\* most entries a working directory holds when the tool exits
MaxEntries == 2
\* longest quality text of the handler specification
MaxQualityLen == 4

Reqs == 1..MaxReqs
\* names mkdtemp can hand out; there is a free one for every request
DirNames == {<<"ytmp4-", i>> : i \in 1..MaxReqs}
NoDir == <<>>

-----------------------------------------------------------------------------
(* Characters and strings *)

\* Op(e), with e evaluated once however often Op uses its argument
With(e, Op(_)) == CHOOSE y \in {Op(x) : x \in {e}} : TRUE

ControlChars == {"\t"}
ForbiddenChars == {"<", ">", ":", "\"", "/", "\\", "|", "?", "*"}
NonAscii == {"U+00E9"}
\* String.prototype.toLowerCase, per character
LowerChar(c) ==
  CASE c = "A" -> "a"
    [] c = "L" -> "l"
    [] c = "H" -> "h"
    [] c = "M" -> "m"
    [] c = "P" -> "p"
    [] OTHER -> c

toLowerCase(str) ==
  LET Lowered(s) == [i \in 1..Len(s) |-> LowerChar(s[i])]
  IN With(str, Lowered)

endsWith(s, suffix) ==
  /\ Len(s) >= Len(suffix)
  /\ SubSeq(s, Len(s) - Len(suffix) + 1, Len(s)) = suffix

\* String.prototype.replace(/[set]+/g, ''): drop every character of the set
RemoveChars(s, set) == SelectSeq(s, LAMBDA c : c \notin set)

\* String.prototype.replace(/[^\x20-\x7E]+/g, ''): keep printable ASCII only
KeepPrintableAscii(s) ==
  SelectSeq(s, LAMBDA c : c \notin ControlChars \cup NonAscii)

WhiteSpace == {" "}

\* String.prototype.trim: from the first to the last character that is no
\* white space
trim(str) ==
  LET Trimmed(s) ==
        LET solid == {i \in 1..Len(s) : s[i] \notin WhiteSpace} IN
        IF solid = {} THEN <<>>
        ELSE SubSeq(s, CHOOSE i \in solid : \A j \in solid : i <= j,
                       CHOOSE i \in solid : \A j \in solid : j <= i)
  IN With(str, Trimmed)

-----------------------------------------------------------------------------
(* The request's inputs *)

\* A url query value is a sequence of pieces: a blank, or a run of text with
\* no blank in it.  <<>> is the missing (or empty) parameter.
UrlTexts ==
  { "not-a-url", "mailto:a@b.c", "https://example.com/v",
    "http://localhost:3000/", "foo://LocalHost/x", "http://127.0.0.1/",
    "http://0.0.0.0:8080/", "http://[::1]:3000/" }

UrlParams ==
  {<<>>, <<" ", " ">>, <<" ", "https://example.com/v", " ">>,
   <<"https://example.com/v", " ", "x">>}
    \cup {<<t>> : t \in UrlTexts}

NoUrl == [ok |-> FALSE, protocol |-> "", hostname |-> <<>>]

\* new URL(str) of the runtime, on the sample texts: whether it parses, and
\* the protocol and hostname it reports.  Special schemes lower-case the
\* host, other schemes keep it; an IPv6 literal keeps its brackets.
URL(str) ==
  IF Len(str) # 1 THEN NoUrl
  ELSE CASE str[1] = "mailto:a@b.c" ->
              [ok |-> TRUE, protocol |-> "mailto:", hostname |-> <<>>]
         [] str[1] = "https://example.com/v" ->
              [ok |-> TRUE, protocol |-> "https:",
               hostname |-> <<"e","x","a","m","p","l","e",".","c","o","m">>]
         [] str[1] = "http://localhost:3000/" ->
              [ok |-> TRUE, protocol |-> "http:",
               hostname |-> <<"l","o","c","a","l","h","o","s","t">>]
         [] str[1] = "foo://LocalHost/x" ->
              [ok |-> TRUE, protocol |-> "foo:",
               hostname |-> <<"L","o","c","a","l","H","o","s","t">>]
         [] str[1] = "http://127.0.0.1/" ->
              [ok |-> TRUE, protocol |-> "http:",
               hostname |-> <<"1","2","7",".","0",".","0",".","1">>]
         [] str[1] = "http://0.0.0.0:8080/" ->
              [ok |-> TRUE, protocol |-> "http:",
               hostname |-> <<"0",".","0",".","0",".","0">>]
         [] str[1] = "http://[::1]:3000/" ->
              [ok |-> TRUE, protocol |-> "http:",
               hostname |-> <<"[",":",":","1","]">>]
         [] OTHER -> NoUrl

isLikelyUrl(str) ==
  LET u == URL(str) IN u.ok /\ u.protocol # "" /\ u.hostname # <<>>

LocalSuffixes ==
  { <<"l","o","c","a","l","h","o","s","t">>,
    <<"1","2","7",".","0",".","0",".","1">>,
    <<"0",".","0",".","0",".","0">>,
    <<":",":","1">> }

\* /(localhost|127\.0\.0\.1|0\.0\.0\.0|::1)$/.test(host)
LocalHostTest(host) == \E suffix \in LocalSuffixes : endsWith(host, suffix)

\* the local-network check of the handler on the trimmed url
IsLocalUrl(videoUrl) == LocalHostTest(toLowerCase(URL(videoUrl).hostname))

\* format query values; "" is the missing parameter
FormatParams == {"", "mp4", "mp3", "MP3", "webm"}

\* (req.query.format || 'mp4').toString().trim().toLowerCase()
formatParamOf(f) ==
  CASE f = "" -> "mp4"
    [] f = "MP3" -> "mp3"
    [] OTHER -> f

\* the query parameters of a request
Query(u, q, f) == [url |-> u, quality |-> q, format |-> f]

\* quality query values, as texts; <<>> is the missing (or empty) parameter
Best == <<"b", "e", "s", "t">>
QualityParams == {<<>>, Best, <<"7", "2", "0">>, <<"7", "2", "1">>}

\* (req.query.quality || 'best').toString().trim()
qualityParamOf(q) == IF q = <<>> THEN Best ELSE trim(q)

allowedHeights ==
  { <<"1", "4", "4">>, <<"2", "4", "0">>, <<"3", "6", "0">>,
    <<"4", "8", "0">>, <<"7", "2", "0">>, <<"1", "0", "8", "0">>,
    <<"1", "4", "4", "0">>, <<"2", "1", "6", "0">> }

\* the value of a decimal digit
digitValue(c) ==
  CASE c = "0" -> 0 [] c = "1" -> 1 [] c = "2" -> 2 [] c = "3" -> 3
    [] c = "4" -> 4 [] c = "5" -> 5 [] c = "6" -> 6 [] c = "7" -> 7
    [] c = "8" -> 8 [] c = "9" -> 9

\* parseInt(qualityParam, 10) on a run of decimal digits
parseInt(q) ==
  LET Value(s) ==
        LET val[i \in 0..Len(s)] ==
              IF i = 0 THEN 0 ELSE 10 * val[i - 1] + digitValue(s[i])
        IN val[Len(s)]
  IN With(q, Value)

\* the height of a request that names no allowed height (null, falsy)
NoHeight == 0

Digits == {"0", "1", "2", "3", "4", "5", "6", "7", "8", "9"}

\* mutant of heightOf: the allow-list is not consulted, any number is taken
heightOf_AnyNumber(qualityParam) ==
  IF qualityParam # <<>> /\ \A i \in DOMAIN qualityParam : qualityParam[i] \in Digits
  THEN parseInt(qualityParam) ELSE NoHeight

heightOf(qualityParam) ==
  IF qualityParam \in allowedHeights THEN parseInt(qualityParam) ELSE NoHeight

\* One alternative of a format selector: the stream filter and the height
\* ceiling ([height<=H]) put on its video part, NoHeight when it has none.
Alt(sel, ceiling) == [sel |-> sel, ceiling |-> ceiling]

\* the format selector of a video request: its alternatives, in order
formatSelector(height) ==
  IF height # NoHeight
  THEN << Alt("bv*[ext=mp4]+ba[ext=m4a]", height), Alt("bv*+ba", height),
          Alt("b", height), Alt("b", NoHeight) >>
  ELSE << Alt("bv*[ext=mp4]+ba[ext=m4a]", NoHeight),
          Alt("bv*[ext=mp4]+ba", NoHeight),
          Alt("b[ext=mp4]", NoHeight), Alt("b", NoHeight) >>

\* the options object the two branches build; it has no cookies yet
ytdlpOptsOf(isMp3, qualityParam) ==
  IF isMp3
  THEN [format |-> <<Alt("bestaudio", NoHeight)>>, extractAudio |-> TRUE,
        audioFormat |-> "mp3", mergeOutputFormat |-> "", cookies |-> ""]
  ELSE [format |-> formatSelector(heightOf(qualityParam)),
        extractAudio |-> FALSE, audioFormat |-> "",
        mergeOutputFormat |-> "mp4", cookies |-> ""]

\* cookie file paths: the well-known one the base64 blob is written to, and
\* the one of YTDLP_COOKIES_PATH or of the project directory
TmpCookiesPath == "/tmp/cookies.txt"
ConfiguredCookiesPath == "<YTDLP_COOKIES_PATH>"
NoCookies == ""

\* ytdlpOpts.cookies as the handler sets it: /tmp/cookies.txt if it exists
\* now, else the file of the startup, else none
cookiesOf(tmpExists, cookiesFile) ==
  IF tmpExists THEN TmpCookiesPath
  ELSE IF cookiesFile # NoCookies THEN cookiesFile ELSE NoCookies

-----------------------------------------------------------------------------
(* File names and the download headers *)

DotMp3 == <<".", "m", "p", "3">>
DotMp4 == <<".", "m", "p", "4">>

extOf(isMp3) == IF isMp3 THEN DotMp3 ELSE DotMp4

\* mutant of findProduced: the first entry is taken, whatever its name
findProduced_First(list, isMp3) == IF list = <<>> THEN <<>> ELSE list[1]

\* entries.find((f) => f.toLowerCase().endsWith('.mp3' | '.mp4')): the first
\* matching entry, <<>> (undefined) when there is none
findProduced(list, isMp3) ==
  LET hits == {i \in 1..Len(list) :
                 endsWith(toLowerCase(list[i]), extOf(isMp3))} IN
  IF hits = {} THEN <<>>
  ELSE list[CHOOSE i \in hits : \A j \in hits : i <= j]

\* path.parse(f).name: the name without its last extension; a leading dot
\* starts no extension
pathName(file) ==
  LET Name(f) ==
        LET dots == {i \in 1..Len(f) : f[i] = "."} IN
        IF dots = {} THEN f
        ELSE LET k == CHOOSE i \in dots : \A j \in dots : j <= i IN
             IF k = 1 THEN f ELSE SubSeq(f, 1, k - 1)
  IN With(file, Name)

sanitizeFileName(name) ==
  trim(RemoveChars(RemoveChars(name, ControlChars), ForbiddenChars))

\* encodeURIComponent of one character: itself when unreserved, else the
\* percent escapes of its UTF-8 bytes
encodeURIComponentChar(c) ==
  CASE c = " " -> <<"%20">>
    [] c = "\t" -> <<"%09">>
    [] c = "U+00E9" -> <<"%C3", "%A9">>
    [] c = "<" -> <<"%3C">>
    [] c = ">" -> <<"%3E">>
    [] c = ":" -> <<"%3A">>
    [] c = "\"" -> <<"%22">>
    [] c = "/" -> <<"%2F">>
    [] c = "\\" -> <<"%5C">>
    [] c = "|" -> <<"%7C">>
    [] c = "?" -> <<"%3F">>
    [] OTHER -> <<c>>

encodeURIComponent(str) ==
  LET Encoded(s) ==
        LET enc[i \in 0..Len(s)] ==
              IF i = 0 THEN <<>> ELSE enc[i - 1] \o encodeURIComponentChar(s[i])
        IN enc[Len(s)]
  IN With(str, Encoded)

\* .replace(/['()]/g, c => '%' + hex(c)).replace(/\*/g, '%2A')
RFC5987Char(c) ==
  CASE c = "'" -> "%27"
    [] c = "(" -> "%28"
    [] c = ")" -> "%29"
    [] c = "*" -> "%2A"
    [] OTHER -> c

\* mutant of encodeRFC5987: the two replace calls are lost
encodeRFC5987_Plain(value) == encodeURIComponent(value)

encodeRFC5987(value) ==
  LET Replaced(e) == [i \in 1..Len(e) |-> RFC5987Char(e[i])]
  IN With(encodeURIComponent(value), Replaced)

Video == <<"v", "i", "d", "e", "o">>

NoHeaders == [contentType |-> "", filename |-> <<>>, filenameStar |-> <<>>]

\* the two setHeader calls of the 'close' handler for the produced file
downloadHeaders(produced, isMp3) ==
  LET baseName == pathName(produced)
      OrVideo(t) == IF t # <<>> THEN t ELSE Video
      title == With(sanitizeFileName(baseName), OrVideo)
      asciiTitle == KeepPrintableAscii(title)
      fallbackTitle == With(asciiTitle, OrVideo)
  IN [contentType |-> IF isMp3 THEN "audio/mpeg" ELSE "video/mp4",
      filename |-> fallbackTitle \o extOf(isMp3),
      filenameStar |-> encodeRFC5987(title \o extOf(isMp3))]

-----------------------------------------------------------------------------
(* The response object *)

NewRes ==
  [status |-> 0, body |-> "", diag |-> 0, headers |-> NoHeaders,
   headersSent |-> FALSE, state |-> "open", sends |-> 0, onClose |-> FALSE,
   aborted |-> FALSE]

\* res.status(code).send(msg): commits status, headers and body and ends the
\* response.  Express gives a string body the text/html type when none is
\* set.  Once the headers are out it changes nothing and throws (see
\* SendThrows); on a connection already closed nothing reaches the wire.
Send(rs, code, msg, diag) ==
  IF rs.headersSent THEN [rs EXCEPT !.sends = @ + 1]
  ELSE [rs EXCEPT !.status = code, !.body = msg, !.diag = diag,
                  !.headers.contentType = IF @ = "" THEN "text/html" ELSE @,
                  !.headersSent = (rs.state # "closed"),
                  !.state = IF @ = "closed" THEN @ ELSE "finished",
                  !.sends = @ + 1]

\* ERR_HTTP_HEADERS_SENT, thrown inside an event listener: nothing catches it
SendThrows(rs) == rs.headersSent

\* res.status(code).end(msg): like send, but sets no header of its own
End(rs, code, msg) ==
  [rs EXCEPT !.status = code, !.body = msg,
             !.headersSent = (rs.state # "closed"),
             !.state = IF @ = "closed" THEN @ ELSE "finished",
             !.sends = @ + 1]

\* the implicit header of the first write or of end(): the status code is
\* the default 200 and the headers are those set so far
Flush(rs) ==
  IF rs.headersSent THEN rs
  ELSE [rs EXCEPT !.status = 200, !.body = "<media>", !.headersSent = TRUE]

-----------------------------------------------------------------------------
(* What the extraction tool and the runtime can do *)

\* sizes of the chunks the child's stderr delivers
SmallChunk == 1500
BigChunk == 3000
ChunkSizes == {SmallChunk, BigChunk}

\* the cap the 'data' listener tests before appending
StderrCap == 4000

\* stderrBuf.length after a chunk of n characters
appendStderr(len, n) == IF len < StderrCap THEN len + n ELSE len

\* files the tool can leave in the working directory
FileNames ==
  { <<"a">> \o DotMp4, <<"U+00E9", ":", ".", "M", "P", "4">>, <<"b">> \o DotMp3 }

\* directory listings: up to MaxEntries distinct names, in readdir order
Listings ==
  { l \in UNION {[1..k -> FileNames] : k \in 0..MaxEntries} :
      \A i, j \in DOMAIN l : i # j => l[i] # l[j] }

\* exit codes the 'close' event reports: "null" for a signalled child,
\* "-2" for a child that failed to spawn
\* The child is spawned with { shell: true }: it is the shell, which runs the
\* tool and exits with the tool's code, or with 127 when it finds no yt-dlp.
ShellNotFound == "127"
ToolExitCodes == {"0", "1", ShellNotFound}

SpawnErrors == {"ENOENT", "EACCES"}

\* what the tool may do in a run of the model: the listings it leaves, the
\* stderr chunks it writes, the codes it exits with
Env(listings, chunks, codes) ==
  [listings |-> listings, chunks |-> chunks, codes |-> codes]

\* all of it
FullEnv == Env(Listings, ChunkSizes, ToolExitCodes)

\* a tool that leaves nothing or one video, writes big chunks, exits 0 or 1
SmallEnv == Env({<<>>, << <<"a">> \o DotMp4 >>}, {BigChunk}, {"0", "1"})

-----------------------------------------------------------------------------
(* State *)

VARIABLES
  pc,         \* per request: where its pipeline stands
  req,        \* per request: the query parameters
  args,       \* per request: the options the tool was spawned with
  workDir,    \* per request: its temporary directory, NoDir before
  child,      \* per request: the child process and its pending events
  exitCode,   \* per request: the code the 'close' event carries
  spawnErr,   \* per request: err.code of the 'error' event
  timer,      \* per request: the kill timer
  kills,      \* per request: how many SIGKILLs were issued
  stderrBuf,  \* per request: stderrBuf.length
  scan,       \* per request: what readdirSync returned, what find chose
  stream,     \* per request: the file read stream
  res,        \* per request: the response
  tmp,        \* the temporary directories that exist
  entries,    \* the files of each temporary directory
  uncaught,   \* an exception escaped a listener: the process is gone
  COOKIES_FILE, \* the cookie file the startup settled on, NoCookies if none
  tmpCookies, \* whether /tmp/cookies.txt exists
  hdrIn,      \* header specification: the produced file and the format
  hdrOut      \* header specification: the headers built for it

reqVars ==
  <<pc, req, args, workDir, child, exitCode, spawnErr, timer, kills,
    stderrBuf, scan, stream, res, tmp, entries, uncaught, COOKIES_FILE,
    tmpCookies>>
cookieVars == <<COOKIES_FILE, tmpCookies>>
hdrVars == <<hdrIn, hdrOut>>
vars == <<reqVars, cookieVars,
                 hdrVars>>

NoReq == [url |-> <<>>, quality |-> <<>>, format |-> ""]
NoArgs == [format |-> <<>>, extractAudio |-> FALSE, audioFormat |-> "",
           mergeOutputFormat |-> "", cookies |-> ""]
NoScan == [read |-> "none", entries |-> <<>>, produced |-> <<>>]
NoHdrIn == [produced |-> <<>>, isMp3 |-> FALSE]

InitRequests(issued) ==
  /\ pc = [r \in Reqs |-> IF r \in issued THEN "idle" ELSE "absent"]
  /\ req = [r \in Reqs |-> NoReq]
  /\ args = [r \in Reqs |-> NoArgs]
  /\ workDir = [r \in Reqs |-> NoDir]
  /\ child = [r \in Reqs |-> "none"]
  /\ exitCode = [r \in Reqs |-> ""]
  /\ spawnErr = [r \in Reqs |-> ""]
  /\ timer = [r \in Reqs |-> "none"]
  /\ kills = [r \in Reqs |-> 0]
  /\ stderrBuf = [r \in Reqs |-> 0]
  /\ scan = [r \in Reqs |-> NoScan]
  /\ stream = [r \in Reqs |-> "none"]
  /\ res = [r \in Reqs |-> NewRes]
  /\ tmp = {}
  /\ entries = [d \in DirNames |-> <<>>]
  /\ uncaught = FALSE
  /\ hdrIn = NoHdrIn
  /\ hdrOut = NoHeaders

\* The startup block that settles COOKIES_FILE.  tmpBefore: /tmp/cookies.txt
\* is there already.  b64: YTDLP_COOKIES_BASE64 is set; the blob is written
\* to /tmp/cookies.txt unless the write throws (writable).  pathExists: the
\* file of YTDLP_COOKIES_PATH, or the project's cookies.txt, exists.
Startup(tmpBefore, b64, writable, pathExists) ==
  /\ tmpCookies = (tmpBefore \/ (b64 /\ writable))
  /\ COOKIES_FILE =
       IF b64 THEN (IF writable THEN TmpCookiesPath ELSE NoCookies)
       ELSE IF pathExists THEN ConfiguredCookiesPath ELSE NoCookies

\* a server started with no cookies of any kind
StartupPlain == Startup(FALSE, FALSE, TRUE, FALSE)

\* a server started in any environment
StartupAny ==
  \E tmpBefore, b64, writable, pathExists \in BOOLEAN :
    Startup(tmpBefore, b64, writable, pathExists)

\* one request is issued to the server; which one is open
Init == StartupPlain /\ \E r \in Reqs : InitRequests({r})

isMp3Of(r) == formatParamOf(req[r].format) = "mp3"

-----------------------------------------------------------------------------
(* The synchronous part of the handler *)

\* mutant of RejectMessage: the url checks are lost, only the local-host
\* check is left
RejectMessage_LocalOnly(videoUrl) ==
  IF IsLocalUrl(videoUrl) THEN "Local URLs are not allowed." ELSE ""

\* the message of the 400 the validation answers, "" when it lets the url by.
\* (The second case is the catch around the second new URL.)
RejectMessage(videoUrl) ==
  CASE videoUrl = <<>> \/ ~isLikelyUrl(videoUrl) -> "Invalid or missing URL."
    [] ~URL(videoUrl).ok -> "Invalid URL."
    [] IsLocalUrl(videoUrl) -> "Local URLs are not allowed."
    [] OTHER -> ""

\* a request, with one of the given queries, that the validation answers
\* with 400
DownloadRejected(r, queries) ==
  /\ ~uncaught
  /\ pc[r] = "idle"
  /\ \E query \in queries :
       /\ RejectMessage(trim(query.url)) # ""
       /\ req' = [req EXCEPT ![r] = query]
       /\ res' = [res EXCEPT ![r] = Send(@, 400, RejectMessage(trim(query.url)), 0)]
  /\ pc' = [pc EXCEPT ![r] = "rejected"]
  /\ UNCHANGED <<args, workDir, child, exitCode, spawnErr, timer, kills,
                 stderrBuf, scan, stream, tmp, entries, uncaught, cookieVars,
                 hdrVars>>

\* a request that passes: makeTempDir, the options, the spawn, the timer.
\* mkdtemp hands out a name that names no directory and that no request
\* holds.  The spawn either fails (an 'error' event is pending) or runs.
DownloadSpawn(r, queries) ==
  /\ ~uncaught
  /\ pc[r] = "idle"
  /\ \E query \in queries :
       /\ RejectMessage(trim(query.url)) = ""
       /\ req' = [req EXCEPT ![r] = query]
       /\ args' = [args EXCEPT ![r] =
                     [ytdlpOptsOf(formatParamOf(query.format) = "mp3",
                                  qualityParamOf(query.quality))
                        EXCEPT !.cookies = cookiesOf(tmpCookies, COOKIES_FILE)]]
  /\ \E d \in DirNames :
       /\ d \notin tmp
       /\ \A o \in Reqs : workDir[o] # d
       /\ workDir' = [workDir EXCEPT ![r] = d]
       /\ tmp' = tmp \cup {d}
       /\ entries' = [entries EXCEPT ![d] = <<>>]
  /\ \/ /\ child' = [child EXCEPT ![r] = "running"]
        /\ UNCHANGED spawnErr
     \/ /\ child' = [child EXCEPT ![r] = "failed"]
        /\ \E e \in SpawnErrors : spawnErr' = [spawnErr EXCEPT ![r] = e]
  /\ timer' = [timer EXCEPT ![r] = "armed"]
  /\ pc' = [pc EXCEPT ![r] = "running"]
  /\ UNCHANGED <<exitCode, kills, stderrBuf, scan, stream, res, uncaught,
                 cookieVars,
                 hdrVars>>

-----------------------------------------------------------------------------
(* The child process: its stderr, its exit, the timer *)

\* child.stderr.on('data')
StderrData(r, env) ==
  /\ ~uncaught
  /\ child[r] = "running"
  /\ \E n \in env.chunks :
       stderrBuf' = [stderrBuf EXCEPT ![r] = appendStderr(@, n)]
  /\ stderrBuf'[r] # stderrBuf[r]
  /\ UNCHANGED <<pc, req, args, workDir, child, exitCode, spawnErr, timer,
                 kills, scan, stream, res, tmp, entries, uncaught, cookieVars,
                 hdrVars>>

\* The tool exits by itself, leaving files in its directory; or it (or the
\* system) has removed the directory.  The 'close' event is then pending.
ChildExit(r, env) ==
  /\ ~uncaught
  /\ child[r] = "running"
  /\ child' = [child EXCEPT ![r] = "exited"]
  /\ \E c \in env.codes : exitCode' = [exitCode EXCEPT ![r] = c]
  /\ \/ /\ \E l \in env.listings : entries' = [entries EXCEPT ![workDir[r]] = l]
        /\ UNCHANGED tmp
     \/ /\ tmp' = tmp \ {workDir[r]}
        /\ UNCHANGED entries
  /\ UNCHANGED <<pc, req, args, workDir, spawnErr, timer, kills, stderrBuf,
                 scan, stream, res, uncaught, cookieVars,
                 hdrVars>>

\* mutant of killed: the signal does not end the child
killed_Ignored(c) == c

\* what child.kill('SIGKILL') makes of the child: a running one is ended by
\* the signal, one that has exited already is left as it is
killed(c) == IF c = "running" THEN "exited" ELSE c

\* the timer's callback: child.kill('SIGKILL').  A child ended by the signal
\* reports the code null; it may leave the files it had written so far.
\* The 'error' event of a failed spawn is emitted on the next tick, before
\* any timer can run.
TimerFire(r, env) ==
  /\ ~uncaught
  /\ timer[r] = "armed"
  /\ child[r] # "failed"
  /\ timer' = [timer EXCEPT ![r] = "fired"]
  /\ kills' = [kills EXCEPT ![r] = @ + 1]
  /\ child' = [child EXCEPT ![r] = killed(@)]
  /\ IF child[r] = "running" /\ child'[r] = "exited"
     THEN /\ exitCode' = [exitCode EXCEPT ![r] = "null"]
          /\ \E l \in env.listings : entries' = [entries EXCEPT ![workDir[r]] = l]
     ELSE UNCHANGED <<exitCode, entries>>
  /\ UNCHANGED <<pc, req, args, workDir, spawnErr, stderrBuf, scan, stream,
                 res, tmp, uncaught, cookieVars,
                 hdrVars>>

\* mutant of clearTimeout: the timer is left armed
clearTimeout_Kept(t) == t

\* clearTimeout(timeout): cancels a timer that has not fired, and does
\* nothing to one that has
clearTimeout(t) == IF t = "armed" THEN "cleared" ELSE t

\* mutant of rmSync: the whole of the temporary directories is removed
rmSync_All(dirs, d) == {}

\* fs.rmSync(workDir, { recursive: true, force: true }), errors swallowed
rmSync(dirs, d) == dirs \ {d}

Cleanup(r) ==
  /\ tmp' = rmSync(tmp, workDir[r])
  /\ entries' = [entries EXCEPT ![workDir[r]] = <<>>]

\* the message of the 500 for a failed spawn
spawnErrorMessage(code) ==
  IF code = "ENOENT"
  THEN "Server is missing yt-dlp. Please install yt-dlp and ffmpeg."
  ELSE "Failed to start download process."

\* child.on('error'): the spawn failed.  The runtime emits 'close' after the
\* 'error' of a failed spawn, with the negative error number as the code.
ChildError(r) ==
  /\ ~uncaught
  /\ child[r] = "failed"
  /\ timer' = [timer EXCEPT ![r] = clearTimeout(@)]
  /\ Cleanup(r)
  /\ res' = [res EXCEPT ![r] = Send(@, 500, spawnErrorMessage(spawnErr[r]), 0)]
  /\ uncaught' = SendThrows(res[r])
  /\ child' = [child EXCEPT ![r] = "exited"]
  /\ exitCode' = [exitCode EXCEPT ![r] = "-2"]
  /\ pc' = [pc EXCEPT ![r] = "failed_start"]
  /\ UNCHANGED <<req, args, workDir, spawnErr, kills, stderrBuf, scan,
                 stream, cookieVars,
                 hdrVars>>

-----------------------------------------------------------------------------
(* child.on('close') *)

\* mutant of isFailureCode: if (code), which lets the null of a signalled
\* child pass as success
isFailureCode_Truthy(code) == code \notin {"0", "null"}

\* code !== 0
isFailureCode(code) == code # "0"

\* the 'close' listener up to its first test: the timer is cleared
CloseEvent(r) ==
  /\ ~uncaught
  /\ child[r] = "exited"
  /\ child' = [child EXCEPT ![r] = "closed"]
  /\ timer' = [timer EXCEPT ![r] = clearTimeout(@)]

\* the child failed: 500 with the captured stderr
CloseFailed(r) ==
  /\ CloseEvent(r)
  /\ isFailureCode(exitCode[r])
  /\ Cleanup(r)
  /\ res' = [res EXCEPT ![r] = Send(@, 500, "Download failed.", stderrBuf[r])]
  /\ uncaught' = SendThrows(res[r])
  /\ pc' = [pc EXCEPT ![r] = IF @ = "running" THEN "failed_exit" ELSE @]
  /\ UNCHANGED <<req, args, workDir, exitCode, spawnErr, kills, stderrBuf,
                 scan, stream, cookieVars,
                 hdrVars>>

\* readdirSync throws: the directory is gone
CloseUnreadable(r) ==
  /\ CloseEvent(r)
  /\ ~isFailureCode(exitCode[r])
  /\ workDir[r] \notin tmp
  /\ scan' = [scan EXCEPT ![r].read = "failed"]
  /\ Cleanup(r)
  /\ res' = [res EXCEPT ![r] = Send(@, 500, "Failed to read output.", 0)]
  /\ uncaught' = SendThrows(res[r])
  /\ pc' = [pc EXCEPT ![r] = "failed_read"]
  /\ UNCHANGED <<req, args, workDir, exitCode, spawnErr, kills, stderrBuf,
                 stream, cookieVars,
                 hdrVars>>

\* mutant of noOutputMessage: the format is not looked at
noOutputMessage_Mp4Only(isMp3) == "No MP4 produced."

\* the message of the 500 for a directory without the expected file
noOutputMessage(isMp3) == IF isMp3 THEN "No MP3 produced." ELSE "No MP4 produced."

\* no entry has the expected extension
CloseNoOutput(r) ==
  /\ CloseEvent(r)
  /\ ~isFailureCode(exitCode[r])
  /\ workDir[r] \in tmp
  /\ findProduced(entries[workDir[r]], isMp3Of(r)) = <<>>
  /\ scan' = [scan EXCEPT ![r] =
                [read |-> "ok", entries |-> entries[workDir[r]],
                 produced |-> <<>>]]
  /\ Cleanup(r)
  /\ res' = [res EXCEPT ![r] = Send(@, 500, noOutputMessage(isMp3Of(r)), 0)]
  /\ uncaught' = SendThrows(res[r])
  /\ pc' = [pc EXCEPT ![r] = "no_output"]
  /\ UNCHANGED <<req, args, workDir, exitCode, spawnErr, kills, stderrBuf,
                 stream, cookieVars,
                 hdrVars>>

\* res.setHeader twice, and res.on('close', ...)
setDownloadHeaders(rs, produced, isMp3) ==
  [rs EXCEPT !.headers = downloadHeaders(produced, isMp3), !.onClose = TRUE]

\* the file is there: the headers are set, the read stream is created, the
\* stream's 'error' and the response's 'close' listeners are registered,
\* and the stream is piped into the response
CloseStream(r) ==
  /\ CloseEvent(r)
  /\ ~isFailureCode(exitCode[r])
  /\ workDir[r] \in tmp
  /\ findProduced(entries[workDir[r]], isMp3Of(r)) # <<>>
  /\ scan' = [scan EXCEPT ![r] =
                [read |-> "ok", entries |-> entries[workDir[r]],
                 produced |-> findProduced(entries[workDir[r]], isMp3Of(r))]]
  /\ res' = [res EXCEPT ![r] = setDownloadHeaders(@, scan'[r].produced, isMp3Of(r))]
  /\ stream' = [stream EXCEPT ![r] = "opening"]
  /\ pc' = [pc EXCEPT ![r] = "streaming"]
  /\ UNCHANGED <<req, args, workDir, exitCode, spawnErr, kills, stderrBuf,
                 tmp, entries, uncaught, cookieVars,
                 hdrVars>>

-----------------------------------------------------------------------------
(* The file stream and the response *)

\* the file was opened; the stream starts to flow
StreamOpened(r) ==
  /\ ~uncaught
  /\ stream[r] = "opening"
  /\ stream' = [stream EXCEPT ![r] = "flowing"]
  /\ UNCHANGED <<pc, req, args, workDir, child, exitCode, spawnErr, timer,
                 kills, stderrBuf, scan, res, tmp, entries, uncaught, cookieVars,
                 hdrVars>>

\* a chunk is written to the response; the first one sends the headers.  A
\* response whose connection is closed takes no chunk: the pipe stays paused.
StreamData(r) ==
  /\ ~uncaught
  /\ stream[r] = "flowing"
  /\ res[r].state = "open"
  /\ ~res[r].headersSent
  /\ res' = [res EXCEPT ![r] = Flush(@)]
  /\ UNCHANGED <<pc, req, args, workDir, child, exitCode, spawnErr, timer,
                 kills, stderrBuf, scan, stream, tmp, entries, uncaught,
                 cookieVars,
                 hdrVars>>

\* the file is read to its end: the pipe ends the response
StreamEnd(r) ==
  /\ ~uncaught
  /\ stream[r] = "flowing"
  /\ res[r].state = "open"
  /\ stream' = [stream EXCEPT ![r] = "ended"]
  /\ res' = [res EXCEPT ![r] = [Flush(@) EXCEPT !.state = "finished"]]
  /\ pc' = [pc EXCEPT ![r] = "sent"]
  /\ UNCHANGED <<req, args, workDir, child, exitCode, spawnErr, timer, kills,
                 stderrBuf, scan, tmp, entries, uncaught, cookieVars,
                 hdrVars>>

\* if (!res.headersSent) res.status(500).end('Failed to read file.');
\* else res.end();
endAfterStreamError(rs) ==
  IF ~rs.headersSent THEN End(rs, 500, "Failed to read file.")
  ELSE [rs EXCEPT !.state = IF @ = "closed" THEN @ ELSE "finished"]

\* readStream.on('error'): opening or reading the file failed.  A paused
\* pipe reads nothing, so it fails no more.
StreamError(r) ==
  /\ ~uncaught
  /\ \/ stream[r] = "opening"
     \/ stream[r] = "flowing" /\ res[r].state = "open"
  /\ stream' = [stream EXCEPT ![r] = "error"]
  /\ Cleanup(r)
  /\ res' = [res EXCEPT ![r] = endAfterStreamError(@)]
  /\ pc' = [pc EXCEPT ![r] = "failed_stream"]
  /\ UNCHANGED <<req, args, workDir, child, exitCode, spawnErr, timer, kills,
                 stderrBuf, scan, uncaught, cookieVars,
                 hdrVars>>

\* The response's 'close' event: the connection closed, after the response
\* was finished or because the client went away.  The listener the 'close'
\* handler of the child registered, if it did, removes the directory.
ResClose(r) ==
  /\ ~uncaught
  /\ pc[r] \notin {"absent", "idle"}
  /\ res[r].state # "closed"
  /\ res' = [res EXCEPT ![r].state = "closed",
                        ![r].aborted = (res[r].state = "open")]
  /\ IF res[r].onClose THEN Cleanup(r) ELSE UNCHANGED <<tmp, entries>>
  /\ UNCHANGED <<pc, req, args, workDir, child, exitCode, spawnErr, timer,
                 kills, stderrBuf, scan, stream, uncaught, cookieVars,
                 hdrVars>>

\* every query the model knows
AllQueries ==
  {Query(u, q, f) : u \in UrlParams, q \in QualityParams, f \in FormatParams}

\* a few of them: a video, an audio and an invalid request
FewQueries ==
  { Query(<<"https://example.com/v">>, <<"7", "2", "0">>, ""),
    Query(<<"https://example.com/v">>, <<>>, "mp3"),
    Query(<<"not-a-url">>, <<>>, "") }

Step(r, queries, env) ==
  \/ DownloadRejected(r, queries)
  \/ DownloadSpawn(r, queries)
  \/ StderrData(r, env)
  \/ ChildExit(r, env)
  \/ TimerFire(r, env)
  \/ ChildError(r)
  \/ CloseFailed(r)
  \/ CloseUnreadable(r)
  \/ CloseNoOutput(r)
  \/ CloseStream(r)
  \/ StreamOpened(r)
  \/ StreamData(r)
  \/ StreamEnd(r)
  \/ StreamError(r)
  \/ ResClose(r)

Next == \E r \in Reqs : Step(r, AllQueries, FullEnv)

Spec == Init /\ [][Next]_vars

\* the event loop runs a due timer or delivers a pending child event
Deliver(r) ==
  \/ TimerFire(r, FullEnv)
  \/ ChildError(r)
  \/ CloseFailed(r)
  \/ CloseUnreadable(r)
  \/ CloseNoOutput(r)
  \/ CloseStream(r)

NextFew == \E r \in Reqs : Step(r, FewQueries, FullEnv)

\* The handler under a few queries, with the event loop's guarantees: it
\* delivers every pending event and runs every timer that is due.
FairSpec ==
  /\ Init /\ [][NextFew]_vars
  /\ WF_vars(\E r \in Reqs : Deliver(r))

-----------------------------------------------------------------------------
(* Requests in flight together *)

\* every request identity is issued
InitConc == StartupPlain /\ InitRequests(Reqs)

\* the listeners of the requests run interleaved on the one event loop
NextConc == \E r \in Reqs : Step(r, FewQueries, SmallEnv)

SpecConc == InitConc /\ [][NextConc]_vars

-----------------------------------------------------------------------------
(* The cookie file, under a file system that changes *)

\* some process writes /tmp/cookies.txt
CookieFileWritten ==
  /\ ~tmpCookies
  /\ tmpCookies' = TRUE
  /\ UNCHANGED <<pc, req, args, workDir, child, exitCode, spawnErr, timer,
                 kills, stderrBuf, scan, stream, res, tmp, entries, uncaught,
                 COOKIES_FILE, hdrVars>>

\* some process removes /tmp/cookies.txt
CookieFileRemoved ==
  /\ tmpCookies
  /\ tmpCookies' = FALSE
  /\ UNCHANGED <<pc, req, args, workDir, child, exitCode, spawnErr, timer,
                 kills, stderrBuf, scan, stream, res, tmp, entries, uncaught,
                 COOKIES_FILE, hdrVars>>

InitCookies == StartupAny /\ \E r \in Reqs : InitRequests({r})

NextCookies ==
  \/ \E r \in Reqs : Step(r, FewQueries, SmallEnv)
  \/ CookieFileWritten
  \/ CookieFileRemoved

SpecCookies == InitCookies /\ [][NextCookies]_vars

-----------------------------------------------------------------------------
(* The header construction on its own, over all short file names *)

NameChars == {"a", " ", "\t", ":", "U+00E9", "'", "."}

BaseNames == UNION {[1..k -> NameChars] : k \in 0..MaxNameLen}

Extensions == {DotMp4, DotMp3, <<".", "M", "P", "4">>, <<".", "t", "x", "t">>}

InitHdr == StartupPlain /\ InitRequests({})

\* the tool leaves one file; the 'close' listener looks for the produced one
HdrScan ==
  /\ hdrIn = NoHdrIn
  /\ \E b \in BaseNames, e \in Extensions, isMp3 \in BOOLEAN :
       /\ findProduced(<<b \o e>>, isMp3) # <<>>
       /\ hdrIn' = [produced |-> findProduced(<<b \o e>>, isMp3),
                    isMp3 |-> isMp3]
  /\ UNCHANGED <<reqVars, hdrOut>>

\* and sets the headers for it
HdrSet ==
  /\ hdrIn # NoHdrIn
  /\ hdrOut = NoHeaders
  /\ hdrOut' = downloadHeaders(hdrIn.produced, hdrIn.isMp3)
  /\ UNCHANGED <<reqVars, hdrIn>>

NextHdr == HdrScan \/ HdrSet

SpecHdr == InitHdr /\ [][NextHdr]_vars

-----------------------------------------------------------------------------
(* The handler's synchronous part on its own, over many quality texts *)

QualityChars == {"0", "1", "2", "4", "7", " "}

QualityTexts ==
  UNION {[1..k -> QualityChars] : k \in 0..MaxQualityLen}
    \cup allowedHeights \cup {Best}

HandlerQueries ==
  {Query(u, q, f) : u \in {<<"https://example.com/v">>, <<"not-a-url">>},
                    q \in QualityTexts, f \in {"", "mp3"}}

NextHandler ==
  \E r \in Reqs :
    \/ DownloadRejected(r, HandlerQueries)
    \/ DownloadSpawn(r, HandlerQueries)

SpecHandler == Init /\ [][NextHandler]_vars

-----------------------------------------------------------------------------
(* Properties *)

Received(r) == pc[r] \notin {"absent", "idle"}

\* the format the request asks for, read off the query parameter
WantsMp3(r) == req[r].format \in {"mp3", "MP3"}

\* a file name with the extension the request expects, in any letter case
HasExpectedExt(f, r) ==
  /\ Len(f) >= 4
  /\ LET e == toLowerCase(SubSeq(f, Len(f) - 3, Len(f))) IN
       e = IF WantsMp3(r) THEN DotMp3 ELSE DotMp4

\* C1: once a request that created a working directory has reached a
\* terminal outcome (its response is closed: after the answer, or by the
\* client at any point, also while the tool still runs), its working
\* directory no longer exists.
C1_DirectoryGoneAtTerminal ==
  \A r \in Reqs :
    workDir[r] # NoDir /\ res[r].state = "closed" => workDir[r] \notin tmp

\* the url parameter is missing, blank, or does not parse
UrlMissingOrUnparsable(u) ==
  \/ u = <<>>
  \/ \A i \in DOMAIN u : u[i] = " "
  \/ ~URL(trim(u)).ok

\* C2: a request whose url is missing, empty after trimming or unparsable is
\* answered 400, and it creates no working directory and spawns no child.
C2_InvalidUrlRejected ==
  \A r \in Reqs :
    Received(r) /\ UrlMissingOrUnparsable(req[r].url) =>
      /\ res[r].status = 400
      /\ workDir[r] = NoDir
      /\ child[r] = "none"
      /\ timer[r] = "none"

C2_Witness ==
  \E r \in Reqs :
    /\ req[r].url = <<"not-a-url">>
    /\ res[r].status = 400
    /\ res[r].state = "closed"

\* the loopback and unspecified hosts, as the URL parser reports them
LoopbackHosts ==
  { <<"l","o","c","a","l","h","o","s","t">>,
    <<"1","2","7",".","0",".","0",".","1">>,
    <<"0",".","0",".","0",".","0">>,
    <<"[",":",":","1","]">> }

\* C3: a request whose url has a loopback or unspecified host, in any letter
\* case, is answered 400 and creates no directory and spawns no child.
C3_LoopbackRejected ==
  \A r \in Reqs :
    Received(r) /\ toLowerCase(URL(trim(req[r].url)).hostname) \in LoopbackHosts =>
      /\ res[r].status = 400
      /\ workDir[r] = NoDir
      /\ child[r] = "none"

ZeroWithFile(r) ==
  /\ child[r] = "closed"
  /\ exitCode[r] = "0"
  /\ scan[r].read = "ok"
  /\ \E i \in DOMAIN scan[r].entries : HasExpectedExt(scan[r].entries[i], r)

\* the request passed validation and the handler has answered it
Answered(r) == Received(r) /\ pc[r] # "rejected" /\ res[r].status # 0

\* C5 as claimed: an answer is 200 if and only if the child closed with code
\* 0 and the directory held a file of the expected extension, and every
\* other answer is a 500.
C5_SuccessIffZeroWithFile ==
  \A r \in Reqs :
    Answered(r) =>
      /\ res[r].status = 200 <=> ZeroWithFile(r)
      /\ res[r].status # 200 => res[r].status = 500

\* the outcomes the claim lists as failures
FailedOutcome(r) ==
  \/ child[r] = "closed" /\ exitCode[r] # "0"
  \/ exitCode[r] = "-2"
  \/ child[r] = "closed" /\ scan[r].read = "failed"
  \/ /\ child[r] = "closed" /\ exitCode[r] = "0" /\ scan[r].read = "ok"
     /\ \A i \in DOMAIN scan[r].entries : ~HasExpectedExt(scan[r].entries[i], r)

\* C5 as amended: a 200 is given only after code 0 with an expected file;
\* every listed failure is answered 500; and code 0 with an expected file is
\* answered 200 unless the file stream failed before any byte was sent,
\* which is answered 500.
C5_SuccessOnlyIfZeroWithFile ==
  \A r \in Reqs :
    /\ res[r].status = 200 => ZeroWithFile(r)
    /\ FailedOutcome(r) => res[r].status = 500
    /\ ZeroWithFile(r) /\ res[r].status # 0 =>
         \/ res[r].status = 200
         \/ /\ res[r].status = 500
            /\ stream[r] = "error"
            /\ res[r].body = "Failed to read file."
    /\ ZeroWithFile(r) /\ stream[r] = "error" => res[r].status \in {200, 500}

C5_Witness ==
  \E r \in Reqs :
    /\ ZeroWithFile(r)
    /\ stream[r] = "error"
    /\ res[r].status = 500

\* C6: the handler sends at most one status-and-body response per request.
C6_AtMostOneResponse == \A r \in Reqs : res[r].sends <= 1

\* C7: the captured stderr text, and the diagnostic part of a 500 body, is
\* at most 4000 long.
C7_StderrBounded ==
  \A r \in Reqs : stderrBuf[r] <= 4000 /\ res[r].diag <= 4000

\* C8: code 0 and no file of the expected extension: 500 with the message
\* of the requested format, and nothing is streamed.
C8_NoOutputAnswered ==
  \A r \in Reqs :
    /\ child[r] = "closed" /\ exitCode[r] = "0" /\ scan[r].read = "ok"
    /\ \A i \in DOMAIN scan[r].entries : ~HasExpectedExt(scan[r].entries[i], r)
    => /\ res[r].status = 500
       /\ res[r].body = IF WantsMp3(r) THEN "No MP3 produced."
                                      ELSE "No MP4 produced."
       /\ stream[r] = "none"
       /\ res[r].headers.filename = <<>>

C8_Witness ==
  \E r \in Reqs :
    /\ child[r] = "closed" /\ exitCode[r] = "0" /\ scan[r].read = "ok"
    /\ scan[r].entries = << <<"a">> \o DotMp4 >>
    /\ WantsMp3(r)
    /\ res[r].body = "No MP3 produced."

MediaTypes == {"video/mp4", "audio/mpeg"}

\* C9: a 400 or 500 carries neither the media Content-Type nor the
\* attachment Content-Disposition; a stream failure after the headers were
\* sent ends the response with no error payload.
C9_FailureIsPlain ==
  \A r \in Reqs :
    /\ res[r].status \in {400, 500} =>
         /\ res[r].headers.contentType \notin MediaTypes
         /\ res[r].headers.filename = <<>>
         /\ res[r].headers.filenameStar = <<>>
    /\ stream[r] = "error" /\ res[r].status = 200 => res[r].body = "<media>"

\* attr-char of RFC 5987, as far as the model's characters go
AttrChars ==
  { "a", "b", "d", "e", "i", "m", "n", "o", "p", "t", "v", "x", "A", "M",
    "P", "3", "4", ".", "-", "_", "!", "~" }

PctEscapes ==
  { "%09", "%20", "%22", "%27", "%28", "%29", "%2A", "%2F", "%3A", "%3C",
    "%3E", "%3F", "%5C", "%7C", "%C3", "%A9" }

\* printable ASCII characters that may stand in the quoted filename
SafeFilenameChars == AttrChars \cup {" ", "'", "(", ")"}

\* the character a single percent escape stands for
PctChar(t) ==
  CASE t = "%09" -> "\t" [] t = "%20" -> " " [] t = "%22" -> "\""
    [] t = "%27" -> "'" [] t = "%28" -> "(" [] t = "%29" -> ")"
    [] t = "%2A" -> "*" [] t = "%2F" -> "/" [] t = "%3A" -> ":"
    [] t = "%3C" -> "<" [] t = "%3E" -> ">" [] t = "%3F" -> "?"
    [] t = "%5C" -> "\\" [] t = "%7C" -> "|"
    [] OTHER -> t

\* percent-decoding, UTF-8: %C3 %A9 is one character
RECURSIVE PctDecode(_)
PctDecode(t) ==
  IF t = <<>> THEN <<>>
  ELSE IF Len(t) >= 2 /\ t[1] = "%C3" /\ t[2] = "%A9"
       THEN <<"U+00E9">> \o PctDecode(SubSeq(t, 3, Len(t)))
       ELSE <<PctChar(t[1])>> \o PctDecode(Tail(t))

\* C10: the headers of a successful response: the Content-Type of the
\* format; a quoted filename whose name part is non-empty, printable ASCII
\* and free of control and forbidden characters; and a filename* that is the
\* percent-encoding of the sanitized title plus the extension.
C10_DownloadHeaders ==
  hdrOut # NoHeaders =>
    LET ext == IF hdrIn.isMp3 THEN DotMp3 ELSE DotMp4
        fn == hdrOut.filename
        namePart == SubSeq(fn, 1, Len(fn) - 4)
        star == hdrOut.filenameStar
        sane == sanitizeFileName(pathName(hdrIn.produced))
        title == IF sane # <<>> THEN sane ELSE Video
    IN /\ hdrOut.contentType = IF hdrIn.isMp3 THEN "audio/mpeg" ELSE "video/mp4"
       /\ Len(fn) > 4
       /\ SubSeq(fn, Len(fn) - 3, Len(fn)) = ext
       /\ \A i \in DOMAIN namePart : namePart[i] \in SafeFilenameChars
       /\ \A i \in DOMAIN star : star[i] \in AttrChars \cup PctEscapes
       /\ PctDecode(star) = title \o ext
       /\ \A i \in DOMAIN title : title[i] \notin ControlChars \cup ForbiddenChars

C10_Witness ==
  /\ hdrOut # NoHeaders
  /\ \E i \in DOMAIN hdrIn.produced : hdrIn.produced[i] = "U+00E9"
  /\ \E i \in DOMAIN hdrIn.produced : hdrIn.produced[i] = "'"
  /\ \E i \in DOMAIN hdrIn.produced : hdrIn.produced[i] = ":"
  /\ hdrIn.isMp3

\* the heights a request may ask for
AllowList == {144, 240, 360, 480, 720, 1080, 1440, 2160}

\* the decimal numeral of a positive number
RECURSIVE DecimalText(_)
DecimalText(n) ==
  LET d == CHOOSE c \in Digits : digitValue(c) = n % 10 IN
  IF n < 10 THEN <<d>> ELSE DecimalText(n \div 10) \o <<d>>

\* the quality text of the request without the blanks around it
QualityAsked(r) ==
  LET q == req[r].quality
      solid == {i \in DOMAIN q : q[i] # " "} IN
  IF solid = {} THEN <<>>
  ELSE [i \in 1..(1 + (CHOOSE j \in solid : \A k \in solid : k <= j)
                     - (CHOOSE j \in solid : \A k \in solid : j <= k)) |->
          q[i - 1 + (CHOOSE j \in solid : \A k \in solid : j <= k)]]

\* a video request for which the tool was spawned
VideoSpawned(r) == workDir[r] # NoDir /\ ~WantsMp3(r)

\* the selector of a video request that gives no quality at all
OmittedQualityFormat == ytdlpOptsOf(FALSE, qualityParamOf(<<>>)).format

\* C11: a video request whose quality is one of the allowed heights gets the
\* chain with that height as the ceiling; every other quality gets exactly
\* the selector of a request without quality.
C11_QualityAllowList ==
  \A r \in Reqs :
    VideoSpawned(r) =>
      IF \E n \in AllowList : DecimalText(n) = QualityAsked(r)
      THEN LET n == CHOOSE m \in AllowList : DecimalText(m) = QualityAsked(r) IN
           /\ args[r].format # OmittedQualityFormat
           /\ {args[r].format[i].ceiling : i \in DOMAIN args[r].format}
                 = {n, NoHeight}
           /\ args[r].format[1].ceiling = n
      ELSE args[r].format = OmittedQualityFormat

C11_Witness ==
  \E r \in Reqs :
    /\ VideoSpawned(r)
    /\ req[r].quality = <<"7", "2", "1">>
    /\ args[r].format = OmittedQualityFormat
    /\ args[r].format # formatSelector(720)

\* a selector with the height ceilings taken off its alternatives
StripCeiling(selector) ==
  [i \in DOMAIN selector |-> Alt(selector[i].sel, NoHeight)]

\* C12: the selector of a video request with no (allowed) height is the
\* selector of a request with a height, less the ceilings.
C12_SameChainWithoutCeiling ==
  \A r \in Reqs :
    VideoSpawned(r) /\ ~(\E n \in AllowList : DecimalText(n) = QualityAsked(r)) =>
      \A n \in AllowList :
        args[r].format = StripCeiling(formatSelector(n))

\* C13: a request whose tool binary is missing (the shell that was spawned
\* for it found no yt-dlp) is answered with the server-misconfiguration
\* message.
C13_MissingToolMessage ==
  \A r \in Reqs :
    child[r] = "closed" /\ exitCode[r] = ShellNotFound =>
      res[r].body = "Server is missing yt-dlp. Please install yt-dlp and ffmpeg."

\* C14: the cookie argument of every spawned tool is the value the startup
\* settled on (none, when it settled on none), whatever has happened to
\* /tmp/cookies.txt since.
C14_CookieArgumentFixed ==
  \A r \in Reqs : workDir[r] # NoDir => args[r].cookies = COOKIES_FILE

\* the requests whose tool was spawned and has not been reported closed
InFlight(r) == child[r] \in {"running", "failed", "exited"}

\* a step leaves request o, its process and its directory as they are
Untouched(o) ==
  /\ pc'[o] = pc[o] /\ res'[o] = res[o] /\ stream'[o] = stream[o]
  /\ child'[o] = child[o] /\ exitCode'[o] = exitCode[o]
  /\ kills'[o] = kills[o] /\ timer'[o] = timer[o]
  /\ workDir'[o] = workDir[o]
  /\ workDir[o] # NoDir =>
       /\ (workDir[o] \in tmp') = (workDir[o] \in tmp)
       /\ entries'[workDir[o]] = entries[workDir[o]]

\* C15: requests in flight together have different working directories (and
\* each its own child), and every step (a failure, a kill by the timer, a
\* client's disconnect) is the step of one request: it leaves the process,
\* the timer, the response and the directory of every other request alone.
C15_RequestsIsolated ==
  /\ [](\A a, b \in Reqs :
          a # b /\ workDir[a] # NoDir => workDir[a] # workDir[b])
  /\ [][\E r \in Reqs : \A o \in Reqs \ {r} : Untouched(o)]_vars

C15_Witness ==
  \E a, b \in Reqs :
    /\ a # b
    /\ timer[a] = "fired" /\ kills[a] = 1 /\ child[a] = "closed"
    /\ res[a].status = 500 /\ workDir[a] \notin tmp
    /\ InFlight(b) /\ child[b] = "running" /\ kills[b] = 0
    /\ workDir[b] \in tmp
    /\ res[b].state = "closed"

\* where a request stands: not yet handled; in the pipeline; or at an end
FailedEnds ==
  {"rejected", "failed_start", "failed_exit", "failed_read", "no_output",
   "failed_stream"}

\* the moves of a request through the pipeline: validating and provisioning
\* are the handler call (to "running"), completing is the 'close' listener
\* (to "streaming"), and "sent" is done
PipelineMoves ==
  { <<"idle", "running">>, <<"running", "streaming">>,
    <<"streaming", "sent">> }

\* the moves that leave the pipeline for a failed end
FailureMoves ==
  { <<"idle", "rejected">>, <<"running", "failed_start">>,
    <<"running", "failed_exit">>, <<"running", "failed_read">>,
    <<"running", "no_output">>, <<"streaming", "failed_stream">> }

\* what each pipeline state rests on
PipelineOrder(r) ==
  /\ res[r].status = 400 => workDir[r] = NoDir
  /\ workDir[r] = NoDir => child[r] = "none" /\ timer[r] = "none"
  /\ scan[r].read # "none" => child[r] = "closed" /\ exitCode[r] = "0"
  /\ stream[r] # "none" =>
       /\ scan[r].read = "ok"
       /\ \E i \in DOMAIN scan[r].entries : scan[r].entries[i] = scan[r].produced
       /\ HasExpectedExt(scan[r].produced, r)

\* one step of a request: along the pipeline, or out of it to a failed end,
\* where the response is ended and the directory removed in the same step
\* and from where nothing of the pipeline is entered any more
PipelineStep(r) ==
  /\ pc'[r] # pc[r] => <<pc[r], pc'[r]>> \in PipelineMoves \cup FailureMoves
  /\ <<pc[r], pc'[r]>> \in FailureMoves =>
       /\ res'[r].state # "open"
       /\ res'[r].status \in {400, 500} \/ res[r].headersSent
       /\ workDir[r] \notin tmp'
  /\ pc[r] \in FailedEnds =>
       /\ workDir'[r] = workDir[r]
       /\ scan'[r] = scan[r]
       /\ stream'[r] = stream[r]
       /\ child[r] = "none" => child'[r] = "none"

\* C16: a request moves through validating, provisioning, running,
\* completing, streaming and done in this order only; the directory exists
\* before the child, the scan follows a close with code 0, the stream follows
\* a found file; and a failure leads straight to an answered, cleaned-up end.
C16_LinearPipeline ==
  /\ [](\A r \in Reqs : PipelineOrder(r))
  /\ [][\A r \in Reqs : PipelineStep(r)]_vars

C16_Witness ==
  \E r \in Reqs :
    /\ pc[r] = "sent"
    /\ child[r] = "closed" /\ exitCode[r] = "0"
    /\ stream[r] = "ended"
    /\ res[r].status = 200
    /\ Len(scan[r].entries) = 2 /\ scan[r].produced = scan[r].entries[2]

\* the child of the request was reported closed, or its spawn reported failed
Reported(r) == child[r] = "closed" \/ pc[r] = "failed_start"

\* C17: once the child was reported closed or failed to start the timer is
\* no longer pending; SIGKILL is issued at most once per request, and never
\* after such a report.
C17_KillAtMostOnce ==
  /\ [](\A r \in Reqs :
          /\ kills[r] <= 1
          /\ Reported(r) => timer[r] \in {"cleared", "fired"})
  /\ [][\A r \in Reqs : kills'[r] # kills[r] => ~Reported(r)]_vars

C17_Witness ==
  \E r \in Reqs :
    /\ pc[r] = "failed_start" /\ child[r] = "closed"
    /\ timer[r] = "cleared" /\ kills[r] = 0

====
